---- MODULE Spec2Model ----
(***************************************************************************)
(* A model of the fixed-capacity entity pool of bevy_entity_pool           *)
(* (src/src/lib.rs): EntityPool (new, get_handle, free_all, clone) and     *)
(* EntityHandle (entity_mut, drop, and the Drop destructor), over a world  *)
(* that holds the data attached to each entity.                            *)
(*                                                                         *)
(* Each action is one call of the function it is named after, with the    *)
(* statements of its body as the source has them.  Statements the source  *)
(* has commented out (the two `clear` calls) are not executed.            *)
(***************************************************************************)
EXTENDS Integers, Sequences, FiniteSets, TLC

\* Bounds of the model.
Capacity == 2        \* the `capacity` argument of EntityPool::new
MaxHandles == 4      \* handles issued in one behaviour
MaxClones == 1       \* clones made of the pool in one behaviour
MaxCloneHandles == 2 \* handles issued in one behaviour that has clones
MaxData == 1         \* distinct values a caller attaches to an entity
WorldNext == 0       \* entities the world has already allocated before new
NumberItems == 3     \* the `number_items` argument of Pool::initialize

VARIABLES
    pools,       \* sequence of EntityPool values; pools[1] is the result of new
    hs,          \* sequence of the EntityHandle values issued, in issue order
    world,       \* World: the data attached to each entity (0: none)
    lifecycle,   \* per handle, the state the operations performed so far give
                 \* it: "Active" from issue, "Released" after its drop(world)
                 \* or after a free_all of its pool while it was outstanding
    ret,         \* the last call: operation, pool, handle, outcome, and the
                 \* lifecycle state of the handle when the call was made
    clears,      \* per entity, the clear operations the world has received
                 \* since the entity was last handed out by get_handle
    stack,       \* Pool<T>::stack, the Vec of free items (last element on top)
    held         \* the items inside the live PoolHandles

vars == <<pools, hs, world, lifecycle, ret, clears, stack, held>>

Slots == 0..(Capacity - 1)

\* world.entities().reserve_entities(n): n fresh consecutive identifiers.
ReserveEntities(next, n) == [i \in 0..(n - 1) |-> next + i]

\* EntityPool::new reserves twice; the first batch is bound to a local that
\* is never used, the second is the one kept in `entities`.
New(capacity, next) ==
    [entities    |-> ReserveEntities(next + capacity, capacity),
     in_use      |-> [i \in 0..(capacity - 1) |-> FALSE],
     free_cursor |-> 0,
     handles     |-> <<>>]

Entities == {New(Capacity, WorldNext).entities[i] : i \in Slots}

\* A clone that copies free_cursor from the pool it is made from.
ClonePoolKeepsCursor(pool) ==
    [entities    |-> pool.entities,
     in_use      |-> [i \in DOMAIN pool.in_use |-> FALSE],
     free_cursor |-> pool.free_cursor,
     handles     |-> <<>>]

\* impl Clone for EntityPool
ClonePool(pool) ==
    [entities    |-> pool.entities,
     in_use      |-> [i \in DOMAIN pool.in_use |-> FALSE],
     free_cursor |-> 0,
     handles     |-> <<>>]

Call(op, p, h, result, prior) ==
    [op |-> op, pool |-> p, h |-> h, result |-> result, prior |-> prior]

\* Pool::initialize with a factory that succeeds: (0..number_items).map(factory)
\* collected into the stack; item i is what factory(i) returned, with the
\* value the holders of its handle have written into it since (0: none).
Initialize(number_items) == [k \in 1..number_items |-> [id |-> k - 1, val |-> 0]]

Init ==
    /\ pools = <<New(Capacity, WorldNext)>>
    /\ hs = <<>>
    /\ world = [e \in Entities |-> 0]
    /\ lifecycle = <<>>
    /\ ret = Call("new", 1, 0, "ok", "none")
    /\ clears = [e \in Entities |-> 0]
    /\ stack = Initialize(NumberItems)
    /\ held = {}

(***************************************************************************)
(* EntityPool::get_handle                                                  *)
(***************************************************************************)
NoIndex == 0 - 1

\* iter.any(|(_, &in_use)| !in_use): the index of the first entry that is not
\* in use, where the iterator stops; NoIndex when every entry is in use.
FirstFree(in_use) ==
    IF \E i \in DOMAIN in_use : ~in_use[i]
    THEN CHOOSE i \in DOMAIN in_use :
             ~in_use[i] /\ \A j \in DOMAIN in_use : j < i => in_use[j]
    ELSE NoIndex

\* The search of get_handle, entered when the entry at free_cursor is in use.
\* `any` consumes the iterator up to and including the first free entry, so
\* the following iter.next() yields the entry after it, or None (the panic)
\* when the first free entry is the last one.  When no entry is free the
\* inner `if` is skipped and the cursor is left where it is.  The statement
\* `*in_use = false` that ends the block is modelled as a write of false to
\* the entry the match has selected.
Search(pool) ==
    IF pool.in_use[pool.free_cursor]
    THEN LET f == FirstFree(pool.in_use)
         IN  IF f = NoIndex
             THEN [panic |-> FALSE, pool |-> pool]
             ELSE IF f + 1 \in DOMAIN pool.in_use
                  THEN [panic |-> FALSE,
                        pool  |-> [pool EXCEPT !.free_cursor = f + 1,
                                               !.in_use[f + 1] = FALSE]]
                  ELSE [panic |-> TRUE, pool |-> pool]
    ELSE [panic |-> FALSE, pool |-> pool]

\* A handle that is always bound to the first entity of the pool.
NewHandleFirst(pool, p) ==
    [entity |-> pool.entities[0], pool |-> p,
     dropped |-> FALSE, scope |-> "held"]

\* A handle that is issued with `dropped` already set.
NewHandleDropped(pool, p) ==
    [entity |-> pool.entities[pool.free_cursor], pool |-> p,
     dropped |-> TRUE, scope |-> "held"]

\* EntityHandle { entity: self.entities[self.free_cursor], pool, dropped: false }
NewHandle(pool, p) ==
    [entity |-> pool.entities[pool.free_cursor], pool |-> p,
     dropped |-> FALSE, scope |-> "held"]

\* self.free_cursor = (self.free_cursor + 1) % self.entities.len()
Advance(pool) ==
    [pool EXCEPT !.free_cursor =
        (pool.free_cursor + 1) % Cardinality(DOMAIN pool.entities)]

\* A get_handle that clears the entity it hands out.
AllocWorldClears(w, e) == [w EXCEPT ![e] = 0]

\* The world after get_handle has handed out entity e: no statement of
\* get_handle takes or touches the world.
AllocWorld(w, e) == w

\* No statement of get_handle writes true into in_use, and none pushes the
\* new handle onto self.handles.
GetHandle(p) ==
    /\ p \in DOMAIN pools
    /\ Len(hs) < MaxHandles
    /\ LET s == Search(pools[p])
       IN  IF s.panic
           THEN /\ ret' = Call("get_handle", p, 0, "exhausted", "none")
                /\ UNCHANGED <<pools, hs, world, lifecycle, clears>>
           ELSE /\ hs' = Append(hs, NewHandle(s.pool, p))
                /\ pools' = [pools EXCEPT ![p] = Advance(s.pool)]
                /\ lifecycle' = Append(lifecycle, "Active")
                /\ ret' = Call("get_handle", p, Len(hs) + 1, "ok", "none")
                /\ world' = AllocWorld(world, NewHandle(s.pool, p).entity)
                /\ clears' = [clears EXCEPT ![NewHandle(s.pool, p).entity] = 0]
    /\ UNCHANGED <<stack, held>>

(***************************************************************************)
(* EntityHandle                                                            *)
(***************************************************************************)
Held(h) == h \in DOMAIN hs /\ hs[h].scope = "held"

\* impl Drop for EntityHandle: the outcome of the handle leaving scope.
DropOutcome(dropped) == IF ~dropped THEN "leak" ELSE "ok"

\* EntityHandle::entity_mut: world.entity_mut(self.entity), with no test of
\* `dropped`; the caller attaches data d through the accessor it returns.
EntityMut(h, d) ==
    /\ Held(h)
    /\ world' = [world EXCEPT ![hs[h].entity] = d]
    /\ ret' = Call("entity_mut", hs[h].pool, h, "ok", lifecycle[h])
    /\ UNCHANGED <<pools, hs, lifecycle, clears, stack, held>>

\* A drop that clears every entity of the world.
DropWorldClearsAll(w, e) == [x \in DOMAIN w |-> 0]

\* A drop that performs the clear of the entity.
DropWorldClears(w, e) == [w EXCEPT ![e] = 0]

\* The world after EntityHandle::drop has run on a handle that was not yet
\* dropped: get_entity_mut(...).expect(...) succeeds on a reserved entity
\* and entity_mut.clear() is commented out.
DropWorld(w, e) == w

\* The clear operations the world has received after EntityHandle::drop has
\* run on a handle that was not yet dropped: none is issued.
DropClears(c, e) == c

\* The pool after EntityHandle::drop: `self.pool.get_mut().0.push(entity)`
\* names a positional field that EntityPool does not have; none of entities,
\* in_use, free_cursor and handles is written.
DropPool(pool, e) == pool

\* EntityHandle::drop(mut self, world), followed by the destructor that runs
\* when the by-value `self` leaves scope at the end of the call.
Release(h) ==
    /\ Held(h)
    /\ LET this == hs[h]
           after == IF ~this.dropped
                    THEN [this EXCEPT !.dropped = TRUE]
                    ELSE this
       IN  /\ world' = IF ~this.dropped THEN DropWorld(world, this.entity)
                       ELSE world
           /\ pools' = IF ~this.dropped
                       THEN [pools EXCEPT ![this.pool] =
                                DropPool(pools[this.pool], this.entity)]
                       ELSE pools
           /\ hs' = [hs EXCEPT ![h] = [after EXCEPT !.scope = "gone"]]
           /\ ret' = Call("release", this.pool, h, DropOutcome(after.dropped),
                          lifecycle[h])
           /\ clears' = IF ~this.dropped THEN DropClears(clears, this.entity)
                        ELSE clears
    /\ lifecycle' = [lifecycle EXCEPT ![h] = "Released"]
    /\ UNCHANGED <<stack, held>>

\* A handle leaves scope without EntityHandle::drop having been called on it.
Discard(h) ==
    /\ Held(h)
    /\ hs' = [hs EXCEPT ![h].scope = "gone"]
    /\ ret' = Call("discard", hs[h].pool, h, DropOutcome(hs[h].dropped),
                   lifecycle[h])
    /\ UNCHANGED <<pools, world, lifecycle, clears, stack, held>>

(***************************************************************************)
(* EntityPool::free_all and Clone                                          *)
(***************************************************************************)
\* First loop of free_all: every entry that is in use is set to false; the
\* clear of the entity is commented out, so the world is not written.
FreeAllInUse(in_use) ==
    [i \in DOMAIN in_use |-> IF in_use[i] THEN FALSE ELSE in_use[i]]

\* Second loop of free_all: `dropped` is set on the handles that the pool
\* tracks in self.handles.
FreeAllHandles(handles, tracked) ==
    [h \in DOMAIN handles |->
        IF \E k \in DOMAIN tracked : tracked[k] = h
        THEN [handles[h] EXCEPT !.dropped = TRUE]
        ELSE handles[h]]

FreeAll(p) ==
    /\ p \in DOMAIN pools
    /\ pools' = [pools EXCEPT ![p].in_use = FreeAllInUse(pools[p].in_use)]
    /\ hs' = FreeAllHandles(hs, pools[p].handles)
    /\ lifecycle' = [h \in DOMAIN lifecycle |->
                        IF Held(h) /\ hs[h].pool = p THEN "Released"
                        ELSE lifecycle[h]]
    /\ ret' = Call("free_all", p, 0, "ok", "none")
    /\ UNCHANGED <<world, clears, stack, held>>

Clone(p) ==
    /\ p \in DOMAIN pools
    /\ Len(pools) < 1 + MaxClones
    /\ pools' = Append(pools, ClonePool(pools[p]))
    /\ ret' = Call("clone", Len(pools) + 1, 0, "ok", "none")
    /\ UNCHANGED <<hs, world, lifecycle, clears, stack, held>>

(***************************************************************************)
(* Pool<T> and PoolHandle<T> (src/src/entity_pool.rs)                      *)
(***************************************************************************)
EntityVars == <<pools, hs, world, lifecycle, clears>>

\* A pop that takes a stack of one element for an empty one and empties it.
PopOffByOne(s) ==
    IF Len(s) <= 1
    THEN [some |-> FALSE, rest |-> <<>>]
    ELSE [some |-> TRUE, item |-> s[Len(s)], rest |-> SubSeq(s, 1, Len(s) - 1)]

\* Vec::pop on the stack: the last element, if there is one, and the rest.
Pop(s) ==
    IF s = <<>>
    THEN [some |-> FALSE, rest |-> s]
    ELSE [some |-> TRUE, item |-> s[Len(s)], rest |-> SubSeq(s, 1, Len(s) - 1)]

\* A drop that loses the item instead of pushing it back.
PushNothing(s, item) == s

\* Vec::push on the stack.
Push(s, item) == Append(s, item)

\* Pool::acquire: Err(PoolExhausted) when pop() yields None, else a
\* PoolHandle holding Some(item).
Acquire ==
    /\ LET r == Pop(stack)
       IN  /\ stack' = r.rest
           /\ IF r.some
              THEN /\ held' = held \cup {r.item}
                   /\ ret' = Call("acquire", 0, r.item.id, "ok", "none")
              ELSE /\ held' = held
                   /\ ret' = Call("acquire", 0, NoIndex, "exhausted", "none")
    /\ UNCHANGED EntityVars

\* impl Drop for PoolHandle: item.take().unwrap() is pushed back on the stack.
PoolHandleDrop(it) ==
    /\ it \in held
    /\ held' = held \ {it}
    /\ stack' = Push(stack, it)
    /\ ret' = Call("pool_handle_drop", 0, it.id, "ok", "none")
    /\ UNCHANGED EntityVars

\* DerefMut for PoolHandle: the holder writes d into the item it holds.
DerefMut(it, d) ==
    /\ it \in held
    /\ held' = (held \ {it}) \cup {[it EXCEPT !.val = d]}
    /\ ret' = Call("deref_mut", 0, it.id, "ok", "none")
    /\ UNCHANGED <<stack, EntityVars>>

\* The generic stack pool and its handles.
NextStack ==
    \/ Acquire
    \/ \E it \in held : PoolHandleDrop(it)
    \/ \E it \in held, d \in 0..MaxData : DerefMut(it, d)

SpecStack == Init /\ [][NextStack]_vars

\* One pool and the handles it issues.
Next ==
    \/ \E p \in DOMAIN pools : GetHandle(p)
    \/ \E h \in 1..MaxHandles, d \in 1..MaxData : EntityMut(h, d)
    \/ \E h \in 1..MaxHandles : Release(h)
    \/ \E h \in 1..MaxHandles : Discard(h)
    \/ \E p \in DOMAIN pools : FreeAll(p)

Spec == Init /\ [][Next]_vars

\* The pool together with clones of it.
NextClone ==
    \/ \E p \in DOMAIN pools : Len(hs) < MaxCloneHandles /\ GetHandle(p)
    \/ \E h \in 1..MaxHandles, d \in 1..MaxData : EntityMut(h, d)
    \/ \E h \in 1..MaxHandles : Release(h)
    \/ \E h \in 1..MaxHandles : Discard(h)
    \/ \E p \in DOMAIN pools : FreeAll(p)
    \/ \E p \in DOMAIN pools : Clone(p)

SpecClone == Init /\ [][NextClone]_vars

TypeOK ==
    /\ Len(pools) \in 1..(1 + MaxClones)
    /\ \A p \in DOMAIN pools :
          /\ pools[p].free_cursor \in Slots
          /\ DOMAIN pools[p].in_use = Slots
          /\ \A i \in Slots : pools[p].entities[i] \in Entities
    /\ Len(hs) \in 0..MaxHandles
    /\ Len(lifecycle) = Len(hs)
    /\ \A h \in DOMAIN hs :
          /\ hs[h].entity \in Entities
          /\ hs[h].pool \in DOMAIN pools
          /\ hs[h].scope \in {"held", "gone"}
          /\ lifecycle[h] \in {"Active", "Released"}
    /\ \A e \in Entities : world[e] \in 0..MaxData
    /\ \A e \in Entities : clears[e] \in Nat
    /\ \A k \in DOMAIN stack : stack[k].id \in 0..(NumberItems - 1)
    /\ \A it \in held : it.id \in 0..(NumberItems - 1)

(***************************************************************************)
(* Vocabulary of the properties.                                           *)
(***************************************************************************)
\* Handle h is in the caller's hands and neither its own drop(world) nor a
\* free_all of its pool has released it.
Active(h) == Held(h) /\ lifecycle[h] = "Active"

\* The index of entity e in the pool's `entities`.
SlotOf(pool, e) == CHOOSE i \in DOMAIN pool.entities : pool.entities[i] = e

\* The handles of pool p that are Active and refer to slot i.
ActiveOn(p, i) ==
    {h \in DOMAIN hs : Active(h) /\ hs[h].pool = p
                       /\ hs[h].entity = pools[p].entities[i]}

ActiveOf(p) == {h \in DOMAIN hs : Active(h) /\ hs[h].pool = p}

\* Every slot of pool p is held by an Active handle.
AllSlotsHeld(p) == \A i \in Slots : ActiveOn(p, i) # {}

\* No handle that has not been released (in the caller's hands or leaked)
\* refers to entity e.
EntityFree(e) ==
    \A h \in DOMAIN hs : hs[h].entity = e => lifecycle[h] = "Released"

(***************************************************************************)
(* Properties                                                              *)
(***************************************************************************)

\* C1 - No double allocation: any two distinct handles of one pool that are
\* Active at the same time refer to different entities.
NoDoubleAllocation ==
    \A a, b \in DOMAIN hs :
        (a # b /\ Active(a) /\ Active(b) /\ hs[a].pool = hs[b].pool)
            => hs[a].entity # hs[b].entity

\* C2 - Capacity invariant: a pool never has more than `capacity` Active
\* handles, nor more than `capacity` entries of in_use set.
CapacityInvariant ==
    \A p \in DOMAIN pools :
        /\ Cardinality(ActiveOf(p)) <= Capacity
        /\ Cardinality({i \in Slots : pools[p].in_use[i]}) <= Capacity

\* C3 - Exhaustion is reported: a get_handle called while every slot of the
\* pool is held by an Active handle ends in the exhaustion outcome and
\* issues no handle.
ExhaustionReported ==
    [][\A p \in DOMAIN pools :
          (AllSlotsHeld(p) /\ ret'.op = "get_handle" /\ ret'.pool = p)
              => (ret'.result = "exhausted" /\ hs' = hs)]_vars

\* The state right after an Active handle was released out of a full pool:
\* the slot of the released handle is free, and every other slot of pool p
\* is held by exactly one Active handle.
JustFreedOne(p) ==
    /\ ret.op = "release" /\ ret.pool = p /\ ret.prior = "Active"
    /\ \A i \in Slots :
          IF pools[p].entities[i] = hs[ret.h].entity
          THEN ActiveOn(p, i) = {}
          ELSE Cardinality(ActiveOn(p, i)) = 1

\* C4 - Exhaustion recovery: after one Active handle is released out of a
\* full pool, the next get_handle succeeds and its handle is bound to the
\* slot that was just freed.
ExhaustionRecovery ==
    [][\A p \in DOMAIN pools :
          (JustFreedOne(p) /\ ret'.op = "get_handle" /\ ret'.pool = p)
              => /\ ret'.result = "ok"
                 /\ Len(hs') = Len(hs) + 1
                 /\ hs'[Len(hs')].entity = hs[ret.h].entity]_vars

\* C5 - Use-after-release is rejected: entity_mut through a handle that was
\* Released (by its own drop or by free_all) when the call was made fails
\* with UseAfterRelease; it succeeds only through an Active handle.
UseAfterReleaseRejected ==
    ret.op = "entity_mut" =>
        /\ ret.prior = "Released" => ret.result = "UseAfterRelease"
        /\ ret.result = "ok" => ret.prior = "Active"

ClearBeforeReuse ==
    \A e \in Entities : EntityFree(e) => world[e] = 0

\* C8 - FreeAll completeness: right after free_all no entry of in_use is
\* set and every handle of the pool that is still in the caller's hands has
\* `dropped` set.
FreeAllCompleteness ==
    ret.op = "free_all" =>
        /\ \A i \in Slots : ~pools[ret.pool].in_use[i]
        /\ \A h \in DOMAIN hs :
              (Held(h) /\ hs[h].pool = ret.pool) => hs[h].dropped

\* C9 - Leak detection: a handle that leaves scope produces the leak error
\* if and only if it was Active (released neither by its own drop nor by
\* free_all) at that moment.
LeakDetection ==
    ret.op \in {"discard", "release"} =>
        (ret.result = "leak" <=>
            (ret.op = "discard" /\ ret.prior = "Active"))

\* C10 - Bookkeeping correspondence: entry i of in_use is set if and only if
\* exactly one Active handle of the pool refers to slot i.
BookkeepingCorrespondence ==
    \A p \in DOMAIN pools : \A i \in Slots :
        pools[p].in_use[i] <=> Cardinality(ActiveOn(p, i)) = 1

\* Slot i of pool p is Free: every handle the pool issued for it has been
\* released.
SlotFree(p, i) ==
    \A h \in DOMAIN hs :
        (hs[h].pool = p /\ hs[h].entity = pools[p].entities[i])
            => lifecycle[h] = "Released"

FreeSlots(p) == {i \in Slots : SlotFree(p, i)}

\* A get_handle step on pool p that issued a handle.
Allocated(p) ==
    /\ ret'.op = "get_handle" /\ ret'.pool = p /\ ret'.result = "ok"
    /\ Len(hs') = Len(hs) + 1

LifecycleOneWay ==
    [][/\ \A h \in DOMAIN hs :
             /\ h \in DOMAIN hs'
             /\ hs[h].dropped => hs'[h].dropped
             /\ lifecycle[h] = "Released" => lifecycle'[h] = "Released"
       /\ \A h \in DOMAIN hs' \ DOMAIN hs :
             ~hs'[h].dropped /\ lifecycle'[h] = "Active"]_vars

\* A released handle stays released while a later handle for the same slot
\* is Active.
LifecycleOneWayWitness ==
    \E a, b \in DOMAIN hs :
        /\ a < b /\ hs[a].pool = hs[b].pool /\ hs[a].entity = hs[b].entity
        /\ hs[a].dropped /\ lifecycle[a] = "Released"
        /\ Active(b) /\ ~hs[b].dropped

\* C14 - No spurious exhaustion: a get_handle made while some slot of the
\* pool is Free succeeds and returns a slot that was Free; it ends in the
\* exhaustion outcome only when no slot is Free.
NoSpuriousExhaustion ==
    [][\A p \in DOMAIN pools :
          (ret'.op = "get_handle" /\ ret'.pool = p)
              => /\ FreeSlots(p) # {}
                    => /\ Allocated(p)
                       /\ SlotOf(pools[p], hs'[Len(hs')].entity)
                             \in FreeSlots(p)
                 /\ ret'.result = "exhausted" => FreeSlots(p) = {}]_vars

\* C15 - One clear per occupancy cycle: when get_handle hands out a slot
\* whose previous occupant was released (by drop or by free_all), the world
\* has received exactly one clear of that entity since the previous
\* hand-out.
OneClearPerCycle ==
    [][\A p \in DOMAIN pools :
          (Allocated(p)
             /\ \E h \in DOMAIN hs : hs[h].entity = hs'[Len(hs')].entity
             /\ SlotFree(p, SlotOf(pools[p], hs'[Len(hs')].entity)))
              => clears[hs'[Len(hs')].entity] = 1]_vars

\* C16 - Allocate does not touch the store: a get_handle call, successful
\* or not, leaves the data of every entity, the `entities` and `handles`
\* of every pool and the capacity unchanged, and leaves every handle issued
\* before as it was.
AllocateFrame ==
    [][ret'.op = "get_handle"
          => /\ world' = world
             /\ Len(pools') = Len(pools)
             /\ \A p \in DOMAIN pools :
                   /\ pools'[p].entities = pools[p].entities
                   /\ DOMAIN pools'[p].in_use = DOMAIN pools[p].in_use
                   /\ pools'[p].handles = pools[p].handles
                   /\ p # ret'.pool => pools'[p] = pools[p]
             /\ \A h \in DOMAIN hs : hs'[h] = hs[h]]_vars

\* get_handle has just handed out an entity that still carries data.
AllocateFrameWitness ==
    /\ ret.op = "get_handle" /\ ret.result = "ok"
    /\ world[hs[ret.h].entity] # 0

\* C17 - Release is local to its slot: drop(world) on an Active handle
\* leaves the in_use entry of every other slot, every other handle and the
\* data of every other entity unchanged.
ReleaseLocal ==
    [][(ret'.op = "release" /\ ret'.prior = "Active")
          => /\ \A p \in DOMAIN pools : \A i \in Slots :
                   pools[p].entities[i] # hs[ret'.h].entity
                       => pools'[p].in_use[i] = pools[p].in_use[i]
             /\ \A h \in DOMAIN hs :
                   h # ret'.h => (hs'[h] = hs[h] /\ lifecycle'[h] = lifecycle[h])
             /\ \A e \in Entities :
                   e # hs[ret'.h].entity => world'[e] = world[e]]_vars

\* An Active handle has just been released while another Active handle
\* holds a different entity that carries data.
ReleaseLocalWitness ==
    /\ ret.op = "release" /\ ret.prior = "Active"
    /\ \E h \in DOMAIN hs :
          /\ Active(h) /\ hs[h].entity # hs[ret.h].entity
          /\ world[hs[h].entity] # 0

StackIds == {stack[k].id : k \in DOMAIN stack}
HeldIds == {it.id : it \in held}

\* Items on the stack plus live handles make number_items, no item is on the
\* stack twice, in two handles, or on the stack and in a handle at once.
Conservation ==
    /\ Len(stack) + Cardinality(held) = NumberItems
    /\ Cardinality(StackIds) = Len(stack)
    /\ Cardinality(HeldIds) = Cardinality(held)
    /\ StackIds \cap HeldIds = {}

\* C20 - Stack-pool conservation: Conservation holds in every state, and
\* acquire returns Err(PoolExhausted) exactly when the stack is empty.
StackPoolConservation ==
    /\ []Conservation
    /\ [][ret'.op = "acquire"
             => (ret'.result = "exhausted" <=> stack = <<>>)]_vars

\* An item has gone through a handle and is back on the stack, while
\* another item is in a live handle and a third has never left the stack.
StackPoolWitness ==
    /\ ret.op = "pool_handle_drop"
    /\ held # {} /\ Len(stack) >= 2
    /\ stack[Len(stack)].id = ret.h /\ stack[Len(stack)].val # 0

\* C19 - Clone resets occupancy but shares identifiers: a clone step appends
\* a pool that has the `entities` of the pool it was made from, no entry of
\* in_use set, free_cursor 0 and no tracked handles, and changes neither the
\* existing pools nor any handle.
CloneResets ==
    [][ret'.op = "clone"
          => /\ Len(pools') = Len(pools) + 1
             /\ \A p \in DOMAIN pools : pools'[p] = pools[p]
             /\ \E p \in DOMAIN pools :
                   pools'[Len(pools')].entities = pools[p].entities
             /\ \A i \in Slots : ~pools'[Len(pools')].in_use[i]
             /\ pools'[Len(pools')].free_cursor = 0
             /\ pools'[Len(pools')].handles = <<>>
             /\ hs' = hs /\ lifecycle' = lifecycle /\ world' = world]_vars

\* A clone has just been made of a pool that has an Active handle out and
\* its cursor advanced; the slot under the clone's cursor, which its next
\* get_handle hands out, is the entity that handle holds.
CloneResetsWitness ==
    /\ ret.op = "clone"
    /\ pools[1].free_cursor # 0
    /\ pools[ret.pool].free_cursor = 0
    /\ \E a \in DOMAIN hs :
          /\ Active(a) /\ hs[a].pool = 1
          /\ pools[ret.pool].entities[pools[ret.pool].free_cursor]
                = hs[a].entity

====
